---- MODULE Spec2Model ----
(***************************************************************************)
(* Model of monitor_api.py: one monitoring loop (monitor_service) per      *)
(* configured service, the shared registry service_status, the alert path  *)
(* (send_whatsapp_alert / send_whatsapp_evolution) and the manual probe     *)
(* endpoint force_check.                                                    *)
(*                                                                         *)
(* The program runs on one asyncio event loop: the code between two awaits *)
(* is one atomic step.  The awaits of a monitor are the HTTP request of    *)
(* check_service, the HTTP post of send_whatsapp_evolution (only when the  *)
(* WhatsApp settings are present) and asyncio.sleep.                       *)
(*                                                                         *)
(* Text is kept in ASCII; a formatted text f"HTTP {code}" is the pair      *)
(* <<"HTTP", code>>.  Wall-clock values (last_check, the timestamp of a    *)
(* message) are not modelled, nor is the start-up message, which goes to   *)
(* send_whatsapp_evolution directly and is no alert of a service.          *)
(***************************************************************************)
EXTENDS Integers, Sequences, FiniteSets, TLC

(* ---------------------------------------------------------------- bounds *)

\* Cycles started by all monitors together in a behaviour of Spec.
MaxCycles == 3

\* Cycles started by the one running monitor in a behaviour of SpecSeq.
MaxSeqCycles == 6

\* Longest run of failing cycles of a monitor in a behaviour of SpecLive.
MaxFailures == 3

(* ------------------------------------------------------- configuration *)

SERVICES ==
    [frontend_dev  |-> [name |-> "Frontend Dev",
                        url |-> "https://dev.julgadosbr.com.br/health",
                        interval |-> 60],
     frontend_prod |-> [name |-> "Frontend Prod",
                        url |-> "https://julgadosbr.com.br/health",
                        interval |-> 60],
     backend       |-> [name |-> "Backend API",
                        url |-> "https://api.dev.julgadosbr.com.br/health",
                        interval |-> 60]]

ServiceIds == DOMAIN SERVICES

\* Path parameters a caller of POST /check/{service_id} may give.
RequestIds == ServiceIds \cup {"unknown"}

\* timeout=10.0 of the probe's HTTP client.
ProbeTimeout == 10

(* ------------------------------------------------------------- probing *)

\* What one HTTP GET of check_service can end in: a response with a status
\* code, or one of the three exception classes the function catches.
ProbeOutcomes ==
    {[kind |-> "response", code |-> 200, elapsed |-> 1],
     [kind |-> "response", code |-> 204, elapsed |-> 1],
     [kind |-> "response", code |-> 500, elapsed |-> 2],
     [kind |-> "timeout",  code |-> 0,   elapsed |-> ProbeTimeout],
     [kind |-> "connect",  code |-> 0,   elapsed |-> 1],
     [kind |-> "other",    code |-> 0,   elapsed |-> 1]}

\* Every 2xx status code taken as success.
check_service_Any2xx(o) ==
    IF o.kind = "response"
    THEN IF o.code >= 200 /\ o.code < 300
         THEN [status |-> "online", response_time |-> o.elapsed,
               error_message |-> <<>>]
         ELSE [status |-> "error", response_time |-> o.elapsed,
               error_message |-> <<"HTTP", o.code>>]
    ELSE [status |-> "offline", response_time |-> o.elapsed,
          error_message |-> <<"Erro: ", o.kind>>]

check_service(o) ==
    IF o.kind = "response"
    THEN IF o.code = 200
         THEN [status |-> "online", response_time |-> o.elapsed,
               error_message |-> <<>>]
         ELSE [status |-> "error", response_time |-> o.elapsed,
               error_message |-> <<"HTTP", o.code>>]
    ELSE IF o.kind = "timeout"
    THEN [status |-> "offline", response_time |-> o.elapsed,
          error_message |-> <<"Timeout - Servico nao respondeu">>]
    ELSE IF o.kind = "connect"
    THEN [status |-> "offline", response_time |-> o.elapsed,
          error_message |-> <<"Erro de conexao - Servico offline">>]
    ELSE [status |-> "offline", response_time |-> o.elapsed,
          error_message |-> <<"Erro: ", o.kind>>]

\* The local variable result of monitor_service before its first assignment.
NoResult == [status |-> "unset", response_time |-> 0, error_message |-> <<>>]

(* ---------------------------------------------------------------- state *)

VARIABLES
    service_status,        \* the global dict: service id -> latest entry
    previous_status,       \* local of each monitor_service
    consecutive_failures,  \* local of each monitor_service
    result,                \* local of each monitor_service
    pc,                    \* where each monitor_service is suspended
    inflight,              \* requests of a monitor's check_service under way
    configured,            \* the WhatsApp settings are all present
    fc,                    \* the force_check request being served
    fcReply,               \* the response of that request
    statusReply,           \* the response of the last get_status request
    recording,             \* the three histories below are being kept
    hist,                  \* history: classifications of a monitor's cycles
    alerts,                \* history: send_whatsapp_alert calls of a monitor
    delivery               \* history: what send_whatsapp_evolution last
                           \* returned to a monitor (the code drops it)

vars == <<service_status, previous_status, consecutive_failures, result, pc,
          inflight, delivery, configured, fc, fcReply, statusReply,
          recording, hist, alerts>>

monitorVars == <<service_status, previous_status, consecutive_failures,
                 result, pc, inflight, delivery, hist, alerts>>

InitProgram ==
    /\ service_status = <<>>
    /\ previous_status = [s \in ServiceIds |-> "online"]
    /\ consecutive_failures = [s \in ServiceIds |-> 0]
    /\ result = [s \in ServiceIds |-> NoResult]
    /\ pc = [s \in ServiceIds |-> "created"]
    /\ inflight = [s \in ServiceIds |-> 0]
    /\ delivery = [s \in ServiceIds |-> "none"]
    /\ configured \in BOOLEAN
    /\ fc = [id |-> "none", pc |-> "idle", outcome |-> "none"]
    /\ fcReply = [status_code |-> 0]
    /\ statusReply = [status_code |-> 0]
    /\ hist = [s \in ServiceIds |-> <<>>]
    /\ alerts = [s \in ServiceIds |-> <<>>]

Init == InitProgram /\ recording = TRUE

(* ------------------------------------------------------ monitor_service *)

\* The entry a cycle of monitor s writes for the probe result r.
Entry(s, r) ==
    [name |-> SERVICES[s].name, url |-> SERVICES[s].url,
     status |-> r.status, response_time |-> r.response_time,
     error_message |-> r.error_message]

\* The registry replaced by a dict holding the one entry.
Upsert_Replaces(reg, s, r) == [k \in {s} |-> Entry(s, r)]

\* An existing entry updated in place without its error_message.
Upsert_KeepsError(reg, s, r) ==
    [k \in (DOMAIN reg) \cup {s} |->
        IF k = s
        THEN IF s \in DOMAIN reg
             THEN [Entry(s, r) EXCEPT !.error_message = reg[s].error_message]
             ELSE Entry(s, r)
        ELSE reg[k]]

\* The entry written only when the status has changed.
Upsert_OnlyOnChange(reg, s, r) ==
    IF s \in DOMAIN reg /\ reg[s].status = r.status
    THEN reg
    ELSE [k \in (DOMAIN reg) \cup {s} |->
             IF k = s THEN Entry(s, r) ELSE reg[k]]

\* service_status[service_id] = {...}
Upsert(reg, s, r) ==
    [k \in (DOMAIN reg) \cup {s} |->
        IF k = s
        THEN [name |-> SERVICES[s].name, url |-> SERVICES[s].url,
              status |-> r.status, response_time |-> r.response_time,
              error_message |-> r.error_message]
        ELSE reg[k]]

\* The down alert repeated on every failing cycle from the second on.
DownAlertDue_Repeats(failures, previous) == failures >= 2

\* The condition of the down alert, tested after the increment.
DownAlertDue(failures, previous) == failures = 2 /\ previous = "online"

\* The recovery alert after a single failing cycle.
RecoveryAlertDue_AfterOne(failures, previous) ==
    previous /= "online" /\ failures >= 1

\* The condition of the recovery alert, tested before the reset.
RecoveryAlertDue(failures, previous) == previous /= "online" /\ failures >= 2

\* The arguments send_whatsapp_alert is called with in a cycle.
AlertArgs(s, r) ==
    IF r.status /= "online"
    THEN [service_name |-> SERVICES[s].name, status |-> r.status,
          error |-> r.error_message]
    ELSE [service_name |-> SERVICES[s].name, status |-> "online",
          error |-> <<"Servico recuperado">>]

\* consecutive_failures after the branch on current_status, up to the alert.
FailuresAtAlert(failures, r) ==
    IF r.status /= "online" THEN failures + 1 ELSE failures

\* The reset of the counter moved out of the recovery branch.
FailuresAtEnd_ResetsAlways(failures, r) == 0

\* The cycle without the reset of the counter.
FailuresAtEnd_NoReset(failures, r) == failures

\* consecutive_failures at the end of the cycle.
FailuresAtEnd(failures, r) ==
    IF r.status /= "online" THEN failures ELSE 0

\* The recovery branch without its condition.
AlertDue_EveryOnline(failures, previous, r) ==
    IF r.status /= "online"
    THEN DownAlertDue(FailuresAtAlert(failures, r), previous)
    ELSE TRUE

\* Whether the cycle calls send_whatsapp_alert.
AlertDue(failures, previous, r) ==
    IF r.status /= "online"
    THEN DownAlertDue(FailuresAtAlert(failures, r), previous)
    ELSE RecoveryAlertDue(failures, previous)

\* The task starts: the loop is entered and the first request is sent.
Start(s) ==
    /\ pc[s] = "created"
    /\ pc' = [pc EXCEPT ![s] = "probing"]
    /\ inflight' = [inflight EXCEPT ![s] = @ + 1]
    /\ UNCHANGED <<service_status, previous_status, consecutive_failures,
                   result, delivery, configured, fc, fcReply, statusReply,
                   recording, hist, alerts>>

\* The failure counter kept in one place for all the monitors.
ProbeReturn_SharedCounter(s, o) ==
    /\ pc[s] = "probing"
    /\ inflight' = [inflight EXCEPT ![s] = @ - 1]
    /\ LET r == check_service(o)
           c == CHOOSE k \in ServiceIds : TRUE
           due == AlertDue(consecutive_failures[c], previous_status[s], r)
           atAlert == FailuresAtAlert(consecutive_failures[c], r)
       IN /\ result' = [result EXCEPT ![s] = r]
          /\ service_status' = Upsert(service_status, s, r)
          /\ hist' = IF recording
                     THEN [hist EXCEPT ![s] = Append(@, r.status)]
                     ELSE hist
          /\ alerts' = IF due /\ recording
                       THEN [alerts EXCEPT ![s] =
                               Append(@, [cycle |-> Len(hist[s]) + 1,
                                          args |-> AlertArgs(s, r)])]
                       ELSE alerts
          /\ IF due /\ configured
             THEN /\ consecutive_failures' =
                        [consecutive_failures EXCEPT ![c] = atAlert]
                  /\ UNCHANGED <<previous_status, delivery>>
                  /\ pc' = [pc EXCEPT ![s] = "notifying"]
             ELSE /\ consecutive_failures' =
                        [consecutive_failures EXCEPT
                            ![c] = FailuresAtEnd(atAlert, r)]
                  /\ previous_status' =
                        [previous_status EXCEPT ![s] = r.status]
                  /\ delivery' = IF due /\ recording
                                 THEN [delivery EXCEPT ![s] = "failed"]
                                 ELSE delivery
                  /\ pc' = [pc EXCEPT ![s] = "sleeping"]
    /\ UNCHANGED <<configured, fc, fcReply, statusReply, recording>>

\* The request of check_service ends with outcome o; the cycle runs on to its
\* next await: the post of the alert, or the sleep.
ProbeReturn(s, o) ==
    /\ pc[s] = "probing"
    /\ inflight' = [inflight EXCEPT ![s] = @ - 1]
    /\ LET r == check_service(o)
           due == AlertDue(consecutive_failures[s], previous_status[s], r)
           atAlert == FailuresAtAlert(consecutive_failures[s], r)
       IN /\ result' = [result EXCEPT ![s] = r]
          /\ service_status' = Upsert(service_status, s, r)
          /\ hist' = IF recording
                     THEN [hist EXCEPT ![s] = Append(@, r.status)]
                     ELSE hist
          /\ alerts' = IF due /\ recording
                       THEN [alerts EXCEPT ![s] =
                               Append(@, [cycle |-> Len(hist[s]) + 1,
                                          args |-> AlertArgs(s, r)])]
                       ELSE alerts
          /\ IF due /\ configured
             THEN /\ consecutive_failures' =
                        [consecutive_failures EXCEPT ![s] = atAlert]
                  /\ UNCHANGED <<previous_status, delivery>>
                  /\ pc' = [pc EXCEPT ![s] = "notifying"]
             ELSE /\ consecutive_failures' =
                        [consecutive_failures EXCEPT
                            ![s] = FailuresAtEnd(atAlert, r)]
                  /\ previous_status' =
                        [previous_status EXCEPT ![s] = r.status]
                  /\ delivery' = IF due /\ recording
                                 THEN [delivery EXCEPT ![s] = "failed"]
                                 ELSE delivery
                  /\ pc' = [pc EXCEPT ![s] = "sleeping"]
    /\ UNCHANGED <<configured, fc, fcReply, statusReply, recording>>

\* What the post of send_whatsapp_evolution can end in: a response with a
\* status code, or an exception.
NotifyOutcomes ==
    {[kind |-> "response", code |-> 200],
     [kind |-> "response", code |-> 201],
     [kind |-> "response", code |-> 500],
     [kind |-> "exception", code |-> 0]}

\* The value send_whatsapp_evolution returns once the settings are present.
send_whatsapp_evolution(o) ==
    o.kind = "response" /\ (o.code = 201 \/ o.code = 200)

\* A failed delivery propagating as an exception out of the loop.
AfterAlert_StopsOnFailure(s, delivered) ==
    IF delivered
    THEN /\ consecutive_failures' =
               [consecutive_failures EXCEPT
                   ![s] = FailuresAtEnd(consecutive_failures[s], result[s])]
         /\ previous_status' =
               [previous_status EXCEPT ![s] = result[s].status]
         /\ pc' = [pc EXCEPT ![s] = "sleeping"]
    ELSE /\ pc' = [pc EXCEPT ![s] = "ended"]
         /\ UNCHANGED <<consecutive_failures, previous_status>>

\* The cycle after send_whatsapp_alert has returned: the reset of the counter
\* in the recovery branch, previous_status, the sleep.
AfterAlert(s, delivered) ==
    /\ consecutive_failures' =
          [consecutive_failures EXCEPT
              ![s] = FailuresAtEnd(consecutive_failures[s], result[s])]
    /\ previous_status' = [previous_status EXCEPT ![s] = result[s].status]
    /\ pc' = [pc EXCEPT ![s] = "sleeping"]

\* The post of send_whatsapp_evolution ends with outcome o: the value is
\* dropped by send_whatsapp_alert and the cycle runs on to the sleep.
NotifyReturn(s, o) ==
    /\ pc[s] = "notifying"
    /\ delivery' = IF recording
                   THEN [delivery EXCEPT
                           ![s] = IF send_whatsapp_evolution(o)
                                  THEN "sent" ELSE "failed"]
                   ELSE delivery
    /\ AfterAlert(s, send_whatsapp_evolution(o))
    /\ UNCHANGED <<service_status, result, inflight, configured, fc, fcReply,
                   statusReply, recording, hist, alerts>>

\* The next request sent on a timer, whether or not the last one has ended.
Wake_Overlapping(s) ==
    /\ pc[s] \in {"sleeping", "probing"}
    /\ pc' = [pc EXCEPT ![s] = "probing"]
    /\ inflight' = [inflight EXCEPT ![s] = @ + 1]
    /\ UNCHANGED <<service_status, previous_status, consecutive_failures,
                   result, delivery, configured, fc, fcReply, statusReply,
                   recording, hist, alerts>>

\* The monitors kept in step: a cycle starts when no other probe is under way.
Wake_InStep(s) ==
    /\ pc[s] = "sleeping"
    /\ \A other \in ServiceIds : pc[other] /= "probing"
    /\ pc' = [pc EXCEPT ![s] = "probing"]
    /\ inflight' = [inflight EXCEPT ![s] = @ + 1]
    /\ UNCHANGED <<service_status, previous_status, consecutive_failures,
                   result, delivery, configured, fc, fcReply, statusReply,
                   recording, hist, alerts>>

\* asyncio.sleep returns: the next cycle sends its request.
Wake(s) ==
    /\ pc[s] = "sleeping"
    /\ pc' = [pc EXCEPT ![s] = "probing"]
    /\ inflight' = [inflight EXCEPT ![s] = @ + 1]
    /\ UNCHANGED <<service_status, previous_status, consecutive_failures,
                   result, delivery, configured, fc, fcReply, statusReply,
                   recording, hist, alerts>>

(* ------------------------------------------------------------ get_status *)

\* GET /status: the response carries the registry as it is at that moment.
GetStatus ==
    /\ statusReply' = [status_code |-> 200, services |-> service_status]
    /\ UNCHANGED <<monitorVars, configured, fc, fcReply, recording>>

(* ---------------------------------------------------------- force_check *)

NotFound == [status_code |-> 404, error |-> "Servico nao encontrado"]

ForceCheckKnown(id) == id \in ServiceIds

\* force_check without the lookup of the id in SERVICES.
ForceCheckCall_NoLookup(id) ==
    /\ fc.pc /= "probing"
    /\ fc' = [id |-> id, pc |-> "probing", outcome |-> "none"]
    /\ fcReply' = [status_code |-> 0]
    /\ UNCHANGED <<monitorVars, configured, statusReply, recording>>

\* POST /check/{id}: 404 at once for an id that is not configured, else the
\* request of check_service is sent.
ForceCheckCall(id) ==
    /\ fc.pc /= "probing"
    /\ IF ForceCheckKnown(id)
       THEN /\ fc' = [id |-> id, pc |-> "probing", outcome |-> "none"]
            /\ fcReply' = [status_code |-> 0]
       ELSE /\ fc' = [id |-> id, pc |-> "done", outcome |-> "none"]
            /\ fcReply' = NotFound
    /\ UNCHANGED <<monitorVars, configured, statusReply, recording>>

\* force_check storing its result in the registry as a cycle does.
ForceCheckReturn_Upserts(o) ==
    /\ fc.pc = "probing"
    /\ fc' = [fc EXCEPT !.pc = "done", !.outcome = o]
    /\ fcReply' = [status_code |-> 200, service |-> SERVICES[fc.id].name,
                   result |-> check_service(o)]
    /\ service_status' = Upsert(service_status, fc.id, check_service(o))
    /\ UNCHANGED <<previous_status, consecutive_failures, result, pc,
                   inflight, delivery, hist, alerts, configured, statusReply,
                   recording>>

\* The request of force_check's check_service ends with outcome o (kept in
\* fc.outcome as history).
ForceCheckReturn(o) ==
    /\ fc.pc = "probing"
    /\ fc' = [fc EXCEPT !.pc = "done", !.outcome = o]
    /\ fcReply' = [status_code |-> 200, service |-> SERVICES[fc.id].name,
                   result |-> check_service(o)]
    /\ UNCHANGED <<monitorVars, configured, statusReply, recording>>

(* ------------------------------------------------------- specifications *)

CyclesStarted(s) == Len(hist[s]) + (IF pc[s] = "probing" THEN 1 ELSE 0)

RECURSIVE SumCycles(_)
SumCycles(S) ==
    IF S = {} THEN 0
    ELSE LET s == CHOOSE x \in S : TRUE
         IN CyclesStarted(s) + SumCycles(S \ {s})

Next ==
    \/ \E s \in ServiceIds : SumCycles(ServiceIds) < MaxCycles /\ Start(s)
    \/ \E s \in ServiceIds : SumCycles(ServiceIds) < MaxCycles /\ Wake(s)
    \/ \E s \in ServiceIds, o \in ProbeOutcomes : ProbeReturn(s, o)
    \/ \E s \in ServiceIds, o \in NotifyOutcomes : NotifyReturn(s, o)
    \/ \E id \in RequestIds : ForceCheckCall(id)
    \/ \E o \in ProbeOutcomes : ForceCheckReturn(o)

Spec == Init /\ [][Next]_vars

\* The monitors and a reader of the registry.
NextRead ==
    \/ \E s \in ServiceIds : SumCycles(ServiceIds) < MaxCycles /\ Start(s)
    \/ \E s \in ServiceIds : SumCycles(ServiceIds) < MaxCycles /\ Wake(s)
    \/ \E s \in ServiceIds, o \in ProbeOutcomes : ProbeReturn(s, o)
    \/ \E s \in ServiceIds, o \in NotifyOutcomes : NotifyReturn(s, o)
    \/ GetStatus

SpecRead == Init /\ [][NextRead]_vars

\* One monitor_service loop followed on its own for MaxSeqCycles cycles.
Watched == "backend"

NextSeq ==
    \/ CyclesStarted(Watched) < MaxSeqCycles /\ Start(Watched)
    \/ CyclesStarted(Watched) < MaxSeqCycles /\ Wake(Watched)
    \/ \E o \in ProbeOutcomes : ProbeReturn(Watched, o)
    \/ \E o \in NotifyOutcomes : NotifyReturn(Watched, o)

SpecSeq == Init /\ [][NextSeq]_vars

\* check_service on its own, called through force_check, over a wider range
\* of outcomes of the request.
ProbeCodes ==
    {200, 201, 202, 204, 206, 301, 302, 304, 307, 400, 401, 403, 404, 408,
     429, 500, 502, 503}

WideProbeOutcomes ==
    {[kind |-> "response", code |-> c, elapsed |-> e] :
        c \in ProbeCodes, e \in {0, 1, 9}}
    \cup {[kind |-> "timeout", code |-> 0, elapsed |-> ProbeTimeout]}
    \cup {[kind |-> k, code |-> 0, elapsed |-> e] :
        k \in {"connect", "other"}, e \in {0, 1, 9}}

NextProbe ==
    \/ \E id \in RequestIds : ForceCheckCall(id)
    \/ \E o \in WideProbeOutcomes : ForceCheckReturn(o)

SpecProbe == Init /\ [][NextProbe]_vars

\* The monitors running for ever.  The histories are not kept and a service
\* fails at most MaxFailures times in a row, which keeps the states finite.
InitLive == InitProgram /\ recording = FALSE

\* One outcome of the probe for each classification.
LiveOutcomes ==
    {o \in ProbeOutcomes : o.code \in {200, 500} \/ o.kind = "timeout"}

ProbeReturnLive(s, o) ==
    /\ check_service(o).status /= "online"
          => consecutive_failures[s] < MaxFailures
    /\ ProbeReturn(s, o)

\* Any step of the monitor of s.
MonitorStep(s) ==
    \/ Start(s)
    \/ Wake(s)
    \/ \E o \in LiveOutcomes : ProbeReturnLive(s, o)
    \/ \E o \in NotifyOutcomes : NotifyReturn(s, o)

NextLive == \E s \in ServiceIds : MonitorStep(s)

\* The event loop runs every task that is ready, and the request of the
\* probe, the post of the alert and the sleep each end within their timeout
\* or interval: a monitor that can take a step does take one.
MonitorFair(s) == WF_vars(MonitorStep(s))

SpecLive == InitLive /\ [][NextLive]_vars /\ \A s \in ServiceIds : MonitorFair(s)

(* ------------------------------------------------- reading the history *)

IsDown(a) == a.args.status /= "online"

IsRecovery(a) == a.args.status = "online"

\* The cycles of monitor s in which a down alert / a recovery alert was sent.
DownAlertCycles(s) ==
    SelectSeq(alerts[s], IsDown)

RecoveryAlertCycles(s) ==
    SelectSeq(alerts[s], IsRecovery)

AlertsIn(s, i) == {k \in 1..Len(alerts[s]) : alerts[s][k].cycle = i}

DownAlertIn(s, i) == \E k \in AlertsIn(s, i) : IsDown(alerts[s][k])

RecoveryAlertIn(s, i) == \E k \in AlertsIn(s, i) : IsRecovery(alerts[s][k])

\* Length of the run of consecutive non-online readings of h that ends at i.
RECURSIVE RunLen(_, _)
RunLen(h, i) ==
    IF i = 0 \/ h[i] = "online" THEN 0 ELSE 1 + RunLen(h, i - 1)

\* The pairs <<cycle, "down" | "recovery">> of the alerts of s, in order.
RECURSIVE Kinds(_)
Kinds(as) ==
    IF as = <<>> THEN <<>>
    ELSE <<<<Head(as).cycle, IF IsDown(Head(as)) THEN "down" ELSE "recovery">>>>
         \o Kinds(Tail(as))

\* The monitor of s is between two cycles.
CycleDone(s) == pc[s] \in {"sleeping", "probing"} /\ Len(hist[s]) > 0

(* --------------------------------------------------------------- claims *)

\* C1: a down alert is sent in a cycle if and only if that cycle is the 2nd
\* consecutive non-online reading after an Online status (the initial status
\* counts as Online); never at the 1st, never at the 3rd or later.
C1_DownAlertIffSecondFailure ==
    \A s \in ServiceIds : \A i \in 1..Len(hist[s]) :
        DownAlertIn(s, i) <=> RunLen(hist[s], i) = 2

\* C2: after the readings [Online, Offline, Offline] exactly one down alert
\* has been sent, in cycle 3.
C2_OneDownAlertAtSecondOffline ==
    \A s \in ServiceIds :
        hist[s] = <<"online", "offline", "offline">>
            => Kinds(alerts[s]) = <<<<3, "down">>>>

\* C3: after the readings [Online, Offline, Offline, Online] the alerts are
\* one down alert in cycle 3 and one recovery alert in cycle 4.
C3_DownThenRecovery ==
    \A s \in ServiceIds :
        hist[s] = <<"online", "offline", "offline", "online">>
            => Kinds(alerts[s]) = <<<<3, "down">>, <<4, "recovery">>>>

\* C4: after the readings [Online, Offline, Online, Offline, Offline] the only
\* alert is one down alert in cycle 5.
C4_DownAfterResetOnly ==
    \A s \in ServiceIds :
        hist[s] = <<"online", "offline", "online", "offline", "offline">>
            => Kinds(alerts[s]) = <<<<5, "down">>>>

\* C5: within one run of consecutive non-online readings at most one down
\* alert is sent, and none in a cycle whose failure count is 3 or more.
C5_OneDownAlertPerOutage ==
    \A s \in ServiceIds :
        /\ \A i \in 1..Len(hist[s]) :
              /\ Cardinality({k \in AlertsIn(s, i) : IsDown(alerts[s][k])}) <= 1
              /\ RunLen(hist[s], i) >= 3 => ~DownAlertIn(s, i)
        /\ \A i, j \in 1..Len(hist[s]) :
              (i < j /\ DownAlertIn(s, i) /\ DownAlertIn(s, j))
                  => \E m \in (i + 1)..(j - 1) : hist[s][m] = "online"

C5_Witness ==
    \E s \in ServiceIds :
        /\ CycleDone(s)
        /\ consecutive_failures[s] >= 4
        /\ RunLen(hist[s], Len(hist[s])) >= 4

\* C6: a recovery alert is sent in a cycle if and only if the reading is
\* Online and it ends a run of 2 or more consecutive non-online readings; it
\* is sent once, and the only alert of an Online cycle is a recovery alert.
C6_RecoveryIffTwoFailures ==
    \A s \in ServiceIds : \A i \in 1..Len(hist[s]) :
        /\ RecoveryAlertIn(s, i)
              <=> (hist[s][i] = "online" /\ RunLen(hist[s], i - 1) >= 2)
        /\ Cardinality({k \in AlertsIn(s, i) : IsRecovery(alerts[s][k])}) <= 1
        /\ (hist[s][i] = "online" /\ RunLen(hist[s], i - 1) = 1)
              => AlertsIn(s, i) = {}

C6_Witness ==
    \E s \in ServiceIds : \E i, j \in 1..Len(hist[s]) :
        /\ CycleDone(s)
        /\ RecoveryAlertIn(s, i) /\ RunLen(hist[s], i - 1) >= 2
        /\ hist[s][j] = "online" /\ RunLen(hist[s], j - 1) = 1
        /\ AlertsIn(s, j) = {}

\* C7: an Online cycle that follows an Online cycle sends no alert.
C7_OnlineAfterOnlineSilent ==
    \A s \in ServiceIds : \A i \in 2..Len(hist[s]) :
        (hist[s][i] = "online" /\ hist[s][i - 1] = "online")
            => AlertsIn(s, i) = {}

C7_Witness ==
    \E s \in ServiceIds : \E i \in 2..Len(hist[s]) :
        /\ CycleDone(s)
        /\ RecoveryAlertIn(s, i - 1)
        /\ i + 1 <= Len(hist[s])
        /\ hist[s][i] = "online" /\ hist[s][i + 1] = "online"
        /\ AlertsIn(s, i) = {} /\ AlertsIn(s, i + 1) = {}

\* C8: after a completed cycle the failure count is 0 if and only if the
\* reading was Online; a non-online cycle adds exactly 1, so the count is the
\* length of the current run of non-online readings.
C8_CountZeroIffOnline ==
    \A s \in ServiceIds :
        CycleDone(s) =>
            /\ consecutive_failures[s] = 0
                  <=> hist[s][Len(hist[s])] = "online"
            /\ consecutive_failures[s] = RunLen(hist[s], Len(hist[s]))

C8_Witness ==
    \E s \in ServiceIds :
        /\ CycleDone(s)
        /\ Len(hist[s]) >= 4
        /\ hist[s][Len(hist[s])] = "online"
        /\ RunLen(hist[s], Len(hist[s]) - 1) >= 2
        /\ consecutive_failures[s] = 0
        /\ configured

\* C9: force_check with an id that is not configured answers not found, sends
\* no probe, and leaves the registry and every monitor's state as they were.
C9_UnknownIdStep ==
    (fc' /= fc /\ fc'.id \notin ServiceIds)
        => /\ fcReply' = NotFound
           /\ fc'.pc = "done"
           /\ UNCHANGED <<service_status, previous_status,
                          consecutive_failures, pc, inflight, hist, alerts>>

C9_UnknownIdNotFound == [][C9_UnknownIdStep]_vars

C9_Witness ==
    /\ fc.id = "unknown" /\ fc.pc = "done"
    /\ fcReply = NotFound
    /\ service_status /= <<>>
    /\ \E s \in ServiceIds : consecutive_failures[s] > 0

\* The debounce state and the alerts of a monitor computed from its own
\* readings alone.
RECURSIVE ReplayState(_, _)
ReplayState(h, n) ==
    IF n = 0 THEN [previous |-> "online", failures |-> 0]
    ELSE LET st == ReplayState(h, n - 1)
             r == [status |-> h[n]]
         IN [previous |-> h[n],
             failures |-> FailuresAtEnd(FailuresAtAlert(st.failures, r), r)]

ReplayAlertCycles(h) ==
    {n \in 1..Len(h) :
        AlertDue(ReplayState(h, n - 1).failures,
                 ReplayState(h, n - 1).previous, [status |-> h[n]])}

\* C10: force_check with a configured id sends one probe and returns its
\* result, and no step of it changes the registry or a monitor's state; the
\* alerts of each monitor are those its own readings give.
C10_ForceCheckStep ==
    (fc' /= fc /\ fc'.id \in ServiceIds)
        => /\ UNCHANGED <<service_status, previous_status,
                          consecutive_failures, result, pc, hist, alerts>>
           /\ fc'.pc = "probing" => fc.pc /= "probing"
           /\ fc'.pc = "done" =>
                /\ fc.pc = "probing" /\ fc.id = fc'.id
                /\ fcReply'.status_code = 200
                /\ fcReply'.service = SERVICES[fc.id].name
                /\ \E o \in ProbeOutcomes : fcReply'.result = check_service(o)

C10_AlertsFromOwnReadings ==
    \A s \in ServiceIds :
        /\ {alerts[s][k].cycle : k \in 1..Len(alerts[s])}
              = ReplayAlertCycles(hist[s])
        /\ (pc[s] /= "notifying") =>
              /\ previous_status[s] = ReplayState(hist[s], Len(hist[s])).previous
              /\ consecutive_failures[s]
                    = ReplayState(hist[s], Len(hist[s])).failures
        /\ s \in DOMAIN service_status
              => /\ Len(hist[s]) > 0
                 /\ service_status[s].status = hist[s][Len(hist[s])]

C10_ForceCheckFrame ==
    [][C10_ForceCheckStep]_vars /\ []C10_AlertsFromOwnReadings

C10_Witness ==
    /\ fc.pc = "done" /\ fc.id \in ServiceIds
    /\ fcReply.status_code = 200
    /\ fc.id \in DOMAIN service_status
    /\ fcReply.result.status /= service_status[fc.id].status
    /\ consecutive_failures[fc.id] = 2

\* The monitor of s has completed at least one cycle.
CompletedACycle(s) ==
    Len(hist[s]) >= 1 /\ ~(pc[s] = "notifying" /\ Len(hist[s]) = 1)

\* C11: with the monitors writing concurrently, every service that has
\* completed a cycle has its own entry (its name and url, the status of its
\* last reading, the values of its last result) and no other service has one,
\* and a reader gets as many entries as services have completed a cycle.
C11_RegistryComplete ==
    /\ DOMAIN service_status = {s \in ServiceIds : CompletedACycle(s)}
    /\ \A s \in DOMAIN service_status :
          /\ service_status[s] = Entry(s, result[s])
          /\ service_status[s].status = hist[s][Len(hist[s])]
    /\ statusReply.status_code = 200
          => DOMAIN statusReply.services \subseteq DOMAIN service_status

C11_ReadStep ==
    statusReply' /= statusReply
        => /\ statusReply'.status_code = 200
           /\ Cardinality(DOMAIN statusReply'.services)
                 = Cardinality({s \in ServiceIds : CompletedACycle(s)})
           /\ UNCHANGED <<service_status, previous_status,
                          consecutive_failures, result, pc>>

C11_NoLostWrites == [][C11_ReadStep]_vars /\ []C11_RegistryComplete

C11_Witness ==
    /\ statusReply.status_code = 200
    /\ Cardinality(DOMAIN statusReply.services) = 2
    /\ Cardinality(DOMAIN service_status) = 3

\* C12: wherever a reader can run, every entry of the registry, and every
\* entry a reader has got, has the name and url of its service and status,
\* response time and error message of one single probe result.
FromOneProbe(s, e) == \E o \in ProbeOutcomes : e = Entry(s, check_service(o))

C12_EntriesWhole ==
    /\ \A s \in DOMAIN service_status : FromOneProbe(s, service_status[s])
    /\ statusReply.status_code = 200
          => \A s \in DOMAIN statusReply.services :
                FromOneProbe(s, statusReply.services[s])

C12_Witness ==
    /\ statusReply.status_code = 200
    /\ \E s \in DOMAIN statusReply.services :
          /\ statusReply.services[s].status /= service_status[s].status
          /\ statusReply.services[s].error_message /= <<>>
          /\ service_status[s].error_message /= <<>>

\* C13: the cycles of one monitor are strictly sequential: at most one of its
\* probes is in flight, and a probe is sent only when the cycle before it has
\* written the registry, has had its alert call (if any) returned and has set
\* previous_status.
C13_OneProbeInFlight ==
    \A s \in ServiceIds :
        /\ inflight[s] \in {0, 1}
        /\ inflight[s] = 1 <=> pc[s] = "probing"

C13_ProbeStartStep ==
    \A s \in ServiceIds :
        inflight'[s] > inflight[s]
            => /\ inflight[s] = 0
               /\ pc[s] \in {"created", "sleeping"}
               /\ Len(hist[s]) > 0
                     => /\ s \in DOMAIN service_status
                        /\ service_status[s] = Entry(s, result[s])
                        /\ previous_status[s] = hist[s][Len(hist[s])]
                        /\ AlertsIn(s, Len(hist[s])) /= {}
                              => delivery[s] \in {"sent", "failed"}

C13_CyclesSequential ==
    [][C13_ProbeStartStep]_vars /\ []C13_OneProbeInFlight

C13_Witness ==
    \E s \in ServiceIds :
        /\ pc[s] = "probing" /\ inflight[s] = 1
        /\ configured
        /\ AlertsIn(s, Len(hist[s])) /= {}
        /\ delivery[s] = "failed"

\* C14: a failed delivery of an alert (send_whatsapp_evolution returns False:
\* settings missing, a refusing response, an exception of the transport)
\* never ends the loop and never changes the debounce state: the cycle ends
\* asleep with previous status and failure count as its readings give them,
\* whatever the delivery was.
DebounceAsReplayed(s) ==
    /\ previous_status[s] = ReplayState(hist[s], Len(hist[s])).previous
    /\ consecutive_failures[s] = ReplayState(hist[s], Len(hist[s])).failures

C14_LoopGoesOn ==
    \A s \in ServiceIds :
        /\ pc[s] \in {"created", "probing", "notifying", "sleeping"}
        /\ pc[s] /= "notifying" => DebounceAsReplayed(s)

C14_DeliveryStep ==
    \A s \in ServiceIds :
        delivery'[s] /= delivery[s]
            => /\ pc'[s] = "sleeping"
               /\ DebounceAsReplayed(s)'

C14_DeliveryFailureHarmless ==
    [][C14_DeliveryStep]_vars /\ []C14_LoopGoesOn

C14_Witness ==
    \E s \in ServiceIds :
        /\ configured
        /\ delivery[s] = "failed"
        /\ pc[s] = "sleeping"
        /\ \E i \in 1..(Len(hist[s]) - 1) : AlertsIn(s, i) /= {}

\* C15: check_service turns every outcome of its request into one of three
\* results and lets no failure out: status code 200 gives online with no
\* error detail, every other status code gives error with the code, and a
\* timeout, a connection failure or any other exception gives offline with
\* an error detail.
C15_Classification ==
    (fc.pc = "done" /\ fc.id \in ServiceIds)
        => LET o == fc.outcome
               r == fcReply.result
           IN /\ fcReply.status_code = 200
              /\ r.status \in {"online", "error", "offline"}
              /\ r.response_time = o.elapsed
              /\ (o.kind = "response" /\ o.code = 200)
                    => (r.status = "online" /\ r.error_message = <<>>)
              /\ (o.kind = "response" /\ o.code /= 200)
                    => (r.status = "error"
                        /\ r.error_message = <<"HTTP", o.code>>)
              /\ o.kind /= "response"
                    => (r.status = "offline" /\ r.error_message /= <<>>)

C15_Witness ==
    /\ fc.pc = "done" /\ fc.id \in ServiceIds
    /\ fc.outcome.kind = "response" /\ fc.outcome.code = 304
    /\ fcReply.result.status = "error"

\* C16: under fair scheduling, with every probe and every alert call
\* returning, each monitor completes cycle after cycle for ever, whatever the
\* probe results are; and no monitor ever waits for another: in every state
\* each monitor has a step of its own to take.
C16_NeverBlocked == \A s \in ServiceIds : ENABLED MonitorStep(s)

C16_MonitorsRunForever ==
    /\ \A s \in ServiceIds :
          /\ []<>(pc[s] = "sleeping")
          /\ []<>(pc[s] = "probing")
    /\ []C16_NeverBlocked

C16_Witness ==
    /\ DOMAIN service_status = ServiceIds
    /\ \E s, u \in ServiceIds :
          /\ pc[s] = "notifying"
          /\ pc[u] = "probing" /\ consecutive_failures[u] = MaxFailures

\* C17: after every cycle, with or without an alert, the entry of the service
\* holds the raw classification of the cycle's probe (online, error or
\* offline) and that probe's duration and error detail; after the readings
\* [Online, Offline, Offline] it shows offline with the last probe's values.
C17_EntryIsLastProbe ==
    \A s \in ServiceIds :
        Len(hist[s]) > 0 =>
            /\ s \in DOMAIN service_status
            /\ service_status[s].status = hist[s][Len(hist[s])]
            /\ service_status[s].status \in {"online", "error", "offline"}
            /\ service_status[s].response_time = result[s].response_time
            /\ service_status[s].error_message = result[s].error_message
            /\ result[s].status = hist[s][Len(hist[s])]
            /\ \E o \in ProbeOutcomes : result[s] = check_service(o)
            /\ hist[s] = <<"online", "offline", "offline">>
                  => /\ service_status[s].status = "offline"
                     /\ service_status[s].error_message /= <<>>

C17_Witness ==
    \E s \in ServiceIds :
        /\ hist[s] = <<"online", "offline", "offline">>
        /\ service_status[s].response_time = ProbeTimeout
        /\ pc[s] = "sleeping"

C19_PreviousOnlineIffZero ==
    \A s \in ServiceIds :
        pc[s] \in {"created", "sleeping", "probing"}
            => /\ previous_status[s] = "online"
                     <=> consecutive_failures[s] = 0
               /\ consecutive_failures[s] >= 1
                     => previous_status[s] \in {"error", "offline"}

C19_Witness ==
    \E s \in ServiceIds :
        /\ pc[s] = "probing"
        /\ consecutive_failures[s] = 2
        /\ previous_status[s] = "error"
        /\ \E i \in 1..Len(hist[s]) : RecoveryAlertIn(s, i)

\* C20: for each service down alerts and recovery alerts alternate, starting
\* with a down alert: the alerts numbered 1, 3, 5, ... are down alerts and
\* those numbered 2, 4, ... are recovery alerts.
C20_AlertsAlternate ==
    \A s \in ServiceIds : \A k \in 1..Len(alerts[s]) :
        IsDown(alerts[s][k]) <=> k % 2 = 1

====
